---- MODULE Spec2Model ----
(***************************************************************************)
(* JonSnow (main.go): fetch the Google Play page of an application, parse  *)
(* its review blocks (GetReview), keep the reviews whose permalink is not  *)
(* yet in the review table (SaveReviews) and post the first ReviewCount of *)
(* them to a Slack webhook (PostReview).                                   *)
(*                                                                         *)
(* Strings that the code cuts, searches or parses are sequences of         *)
(* one-character strings; the three CJK characters of the zh-tw date       *)
(* layout are written "U5E74" (year), "U6708" (month), "U65E5" (day).      *)
(***************************************************************************)
EXTENDS Integers, Sequences, FiniteSets, TLC

VARIABLES
    arg,          \* argument of parseRate or GetReview when applied on its own
    res,          \* its result, "pending" before the call
    store,        \* table review: sequence of rows, id = position (serial)
    pc,           \* pc[r]: position of run r in main
    config,       \* config[r]: Config of run r (ReviewCount, Location) while it runs
    reviews,      \* reviews[r]: what GetReview returned to run r, while it runs
    idx,          \* idx[r]: index of the candidate SaveReviews is at
    postReviews,  \* postReviews[r]: the slice SaveReviews builds (kept: what pass r returned)
    payload,      \* payload[r]: attachments of the SlackPayload run r gave to client.Do
    delivery,     \* delivery[r]: "none", "sent" or "error" (client.Do)
    err           \* err[r]: the error main logged, "" when none

vars == <<arg, res, store, pc, config, reviews, idx, postReviews,
          payload, delivery, err>>

(***************************************************************************)
(* Bounds of the model.                                                    *)
(***************************************************************************)
MaxRuns == 2          \* pipeline runs against the same table
MaxBlocks == 3        \* review blocks on one fetched page
MaxOverlapBlocks == 1 \* the same, for runs that overlap
MaxReviewCount == 2   \* largest configured review_count tried
MaxParseBlocks == 3   \* review blocks of a document given to GetReview alone
MaxDigits == 3        \* digits of the percentage in a style string
MaxBodyLen == 3       \* characters of a review body
MaxLinkLen == 1       \* characters of the link-control text

MAX_REVIEW_NUM == 40

(***************************************************************************)
(* strings                                                                 *)
(***************************************************************************)
Min(a, b) == IF a < b THEN a ELSE b

Tail_n(s, n) == SubSeq(s, n + 1, Len(s))

HasPrefix(s, prefix) ==
    /\ Len(s) >= Len(prefix)
    /\ SubSeq(s, 1, Len(prefix)) = prefix

\* strings.Index: 0-based position of the first occurrence of sep, -1 if none
Index(s, sep) ==
    LET hits == {k \in 0..(Len(s) - Len(sep)) : HasPrefix(Tail_n(s, k), sep)}
    IN  IF hits = {} THEN -1 ELSE CHOOSE k \in hits : \A h \in hits : k <= h

ContainsNoPrefix(s, substr) ==
    \* matches on the percentage alone, without the "width: " in front of it
    Index(s, Tail_n(substr, 7)) >= 0

Contains(s, substr) == Index(s, substr) >= 0

RECURSIVE Repeat(_, _)
Repeat(s, count) == IF count <= 0 THEN <<>> ELSE s \o Repeat(s, count - 1)

\* strings.Split(s, sep): explode into characters when sep is empty (the
\* empty slice for an empty s), otherwise cut at every occurrence of sep
RECURSIVE genSplit(_, _)
genSplit(s, sep) ==
    LET m == Index(s, sep)
    IN  IF m < 0 THEN <<s>>
        ELSE <<SubSeq(s, 1, m)>> \o genSplit(Tail_n(s, m + Len(sep)), sep)

explode(s) == [k \in 1..Len(s) |-> <<s[k]>>]

Split(s, sep) == IF sep = <<>> THEN explode(s) ELSE genSplit(s, sep)

(***************************************************************************)
(* parseRate                                                               *)
(***************************************************************************)
RATING_EMOJI == <<":", "s", "t", "a", "r", ":">>
RATING_EMOJI_2 == <<":", "s", "t", "a", "r", "2", ":">>

Width(digits) == <<"w", "i", "d", "t", "h", ":", " ">> \o digits \o <<"%">>

parseRate(message) ==
    IF Contains(message, Width(<<"2", "0">>)) THEN Repeat(RATING_EMOJI, 1)
    ELSE IF Contains(message, Width(<<"4", "0">>)) THEN Repeat(RATING_EMOJI, 2)
    ELSE IF Contains(message, Width(<<"6", "0">>)) THEN Repeat(RATING_EMOJI, 3)
    ELSE IF Contains(message, Width(<<"8", "0">>)) THEN Repeat(RATING_EMOJI, 4)
    ELSE IF Contains(message, Width(<<"1", "0", "0">>)) THEN Repeat(RATING_EMOJI_2, 5)
    ELSE <<>>

(***************************************************************************)
(* time.Parse, for the two layouts GetReview uses and for the empty layout *)
(***************************************************************************)
Digits == <<"0", "1", "2", "3", "4", "5", "6", "7", "8", "9">>

Upper == <<"A", "B", "C", "D", "E", "F", "G", "H", "I", "J", "K", "L", "M",
           "N", "O", "P", "Q", "R", "S", "T", "U", "V", "W", "X", "Y", "Z">>
Lower == <<"a", "b", "c", "d", "e", "f", "g", "h", "i", "j", "k", "l", "m",
           "n", "o", "p", "q", "r", "s", "t", "u", "v", "w", "x", "y", "z">>

isDigit(s, i) == Len(s) > i /\ \E d \in 1..10 : Digits[d] = s[i + 1]

DigitVal(c) == (CHOOSE d \in 1..10 : Digits[d] = c) - 1

RECURSIVE atoiDigits(_, _)
atoiDigits(s, acc) ==
    IF s = <<>> THEN acc ELSE atoiDigits(Tail(s), 10 * acc + DigitVal(s[1]))

\* getnum(s, false): one or two leading digits
getnum(s) ==
    IF ~isDigit(s, 0) THEN [ok |-> FALSE, n |-> 0, rest |-> s]
    ELSE IF ~isDigit(s, 1) THEN [ok |-> TRUE, n |-> DigitVal(s[1]), rest |-> Tail_n(s, 1)]
    ELSE [ok |-> TRUE, n |-> 10 * DigitVal(s[1]) + DigitVal(s[2]), rest |-> Tail_n(s, 2)]

toLower(c) ==
    IF \E k \in 1..26 : Upper[k] = c
    THEN Lower[CHOOSE k \in 1..26 : Upper[k] = c]
    ELSE c

\* match: equality up to ASCII case
match(s1, s2) ==
    /\ Len(s1) = Len(s2)
    /\ \A k \in 1..Len(s1) : toLower(s1[k]) = toLower(s2[k])

longMonthNames == <<
    <<"J", "a", "n", "u", "a", "r", "y">>,
    <<"F", "e", "b", "r", "u", "a", "r", "y">>,
    <<"M", "a", "r", "c", "h">>,
    <<"A", "p", "r", "i", "l">>,
    <<"M", "a", "y">>,
    <<"J", "u", "n", "e">>,
    <<"J", "u", "l", "y">>,
    <<"A", "u", "g", "u", "s", "t">>,
    <<"S", "e", "p", "t", "e", "m", "b", "e", "r">>,
    <<"O", "c", "t", "o", "b", "e", "r">>,
    <<"N", "o", "v", "e", "m", "b", "e", "r">>,
    <<"D", "e", "c", "e", "m", "b", "e", "r">> >>

\* lookup(longMonthNames, val): the first name val starts with
lookup(val) ==
    LET hits == {k \in 1..12 : /\ Len(val) >= Len(longMonthNames[k])
                               /\ match(SubSeq(val, 1, Len(longMonthNames[k])),
                                        longMonthNames[k])}
    IN  IF hits = {} THEN [ok |-> FALSE, n |-> 0, rest |-> val]
        ELSE LET k == CHOOSE h \in hits : \A g \in hits : h <= g
             IN  [ok |-> TRUE, n |-> k, rest |-> Tail_n(val, Len(longMonthNames[k]))]

RECURSIVE cutspace(_)
cutspace(s) == IF s # <<>> /\ s[1] = " " THEN cutspace(Tail(s)) ELSE s

\* skip(value, prefix): value without the literal text prefix; a run of
\* spaces in the layout matches a run of spaces in the value
RECURSIVE skip(_, _)
skip(value, prefix) ==
    IF prefix = <<>> THEN [ok |-> TRUE, rest |-> value]
    ELSE IF prefix[1] = " " THEN
        IF value # <<>> /\ value[1] # " " THEN [ok |-> FALSE, rest |-> value]
        ELSE skip(cutspace(value), cutspace(prefix))
    ELSE IF value = <<>> \/ value[1] # prefix[1] THEN [ok |-> FALSE, rest |-> value]
    ELSE skip(Tail(value), Tail(prefix))

isLeap(year) == year % 4 = 0 /\ (year % 100 # 0 \/ year % 400 = 0)

daysBefore == <<0, 31, 59, 90, 120, 151, 181, 212, 243, 273, 304, 334, 365>>

daysIn(m, year) ==
    IF m = 2 /\ isLeap(year) THEN 29 ELSE daysBefore[m + 1] - daysBefore[m]

\* The chunks nextStdChunk cuts the layouts of GetReview into.
LayoutZhTw == <<[std |-> "stdLongYear"], [lit |-> <<"U5E74">>],
                [std |-> "stdNumMonth"], [lit |-> <<"U6708">>],
                [std |-> "stdDay"], [lit |-> <<"U65E5">>]>>

LayoutEn == <<[std |-> "stdLongMonth"], [lit |-> <<" ">>],
              [std |-> "stdDay"], [lit |-> <<",", " ">>],
              [std |-> "stdLongYear"]>>

LayoutNone == <<>>

ParseFail == [ok |-> FALSE, t |-> [year |-> 0, month |-> 1, day |-> 1]]

RECURSIVE parseChunks(_, _, _)
parseChunks(layout, value, t) ==
    IF layout = <<>> THEN
        IF value # <<>> THEN ParseFail                        \* extra text
        ELSE IF t.day < 1 \/ t.day > daysIn(t.month, t.year) THEN ParseFail
        ELSE [ok |-> TRUE, t |-> t]
    ELSE LET c == layout[1] IN
        IF "lit" \in DOMAIN c THEN
            LET s == skip(value, c.lit)
            IN  IF s.ok THEN parseChunks(Tail(layout), s.rest, t) ELSE ParseFail
        ELSE IF c.std = "stdLongYear" THEN
            IF Len(value) < 4 \/ ~isDigit(value, 0) THEN ParseFail
            ELSE IF \E k \in 1..3 : ~isDigit(value, k) THEN ParseFail
            ELSE parseChunks(Tail(layout), Tail_n(value, 4),
                             [t EXCEPT !.year = atoiDigits(SubSeq(value, 1, 4), 0)])
        ELSE IF c.std = "stdNumMonth" THEN
            LET g == getnum(value)
            IN  IF ~g.ok \/ g.n <= 0 \/ 12 < g.n THEN ParseFail
                ELSE parseChunks(Tail(layout), g.rest, [t EXCEPT !.month = g.n])
        ELSE IF c.std = "stdLongMonth" THEN
            LET g == lookup(value)
            IN  IF ~g.ok THEN ParseFail
                ELSE parseChunks(Tail(layout), g.rest, [t EXCEPT !.month = g.n])
        ELSE \* stdDay
            LET g == getnum(value)
            IN  IF ~g.ok THEN ParseFail
                ELSE parseChunks(Tail(layout), g.rest, [t EXCEPT !.day = g.n])

\* time.Parse(layout, value): fields the layout leaves out are zero or,
\* where zero is impossible, one
Parse(layout, value) ==
    parseChunks(layout, value, [year |-> 0, month |-> 1, day |-> 1])

\* Time.Unix() of a midnight-UTC date is 86400 * UnixDay; the model keeps
\* the day count, which orders dates as the seconds do.
leapsBefore(year) ==
    IF year <= 0 THEN 0
    ELSE ((year - 1) \div 4) - ((year - 1) \div 100) + ((year - 1) \div 400) + 1

UnixDay(t) ==
    (365 * t.year + leapsBefore(t.year)
       + daysBefore[t.month] + (IF t.month > 2 /\ isLeap(t.year) THEN 1 ELSE 0)
       + (t.day - 1))
    - (365 * 1970 + leapsBefore(1970))

RECURSIVE itoa(_, _)
itoa(n, width) ==
    IF width <= 0 THEN <<>> ELSE itoa(n \div 10, width - 1) \o <<Digits[(n % 10) + 1]>>

\* Time.Format("2006-01-02")
Format(t) == itoa(t.year, 4) \o <<"-">> \o itoa(t.month, 2) \o <<"-">> \o itoa(t.day, 2)

(***************************************************************************)
(* GetReview: the callback of Each for one .single-review block, then      *)
(* sort.Sort.  A block is what the selectors of the callback read from it: *)
(* author, date, permalink (href, "" when absent), title, body, link and   *)
(* style (the rating node's style attribute).                              *)
(***************************************************************************)
timeForm(Location) ==
    IF Location = "zh-tw" THEN LayoutZhTw
    ELSE IF Location = "en" THEN LayoutEn
    ELSE LayoutNone

\* One call of the callback: the block is skipped (date error), or the
\* callback panics (index 0 of an empty slice), or a Review is appended.
EachBlock(cfg, s) ==
    LET date == Parse(timeForm(cfg.Location), s.date)
        parts == Split(s.body, s.link)
    IN  IF ~date.ok THEN [kind |-> "skip"]
        ELSE IF Len(parts) = 0 THEN [kind |-> "panic"]
        ELSE [kind |-> "review",
              review |-> [Author |-> s.author,
                          Title |-> IF s.title = "" THEN "No title provided" ELSE s.title,
                          Message |-> parts[1],
                          Rate |-> parseRate(s.style),
                          UpdatedAt |-> date.t,
                          Permalink |-> s.permalink,
                          Color |-> ""]]

\* The Each loop: the reviews appended so far, or a panic that unwinds main.
RECURSIVE Collect(_, _, _)
Collect(cfg, doc, acc) ==
    IF doc = <<>> THEN [panic |-> FALSE, reviews |-> acc]
    ELSE LET e == EachBlock(cfg, doc[1])
         IN  IF e.kind = "panic" THEN [panic |-> TRUE, reviews |-> <<>>]
             ELSE IF e.kind = "skip" THEN Collect(cfg, Tail(doc), acc)
             ELSE Collect(cfg, Tail(doc), Append(acc, e.review))

LessAscending(r, i, j) == UnixDay(r[i].UpdatedAt) < UnixDay(r[j].UpdatedAt)

\* Reviews.Less, Reviews.Swap (indices from 1)
Less(r, i, j) == UnixDay(r[i].UpdatedAt) > UnixDay(r[j].UpdatedAt)

Swap(r, i, j) == [r EXCEPT ![i] = r[j], ![j] = r[i]]

\* sort.Sort on a slice of at most 12 elements is insertion sort.
RECURSIVE insertDown(_, _)
insertDown(r, j) ==
    IF j > 1 /\ Less(r, j, j - 1) THEN insertDown(Swap(r, j, j - 1), j - 1) ELSE r

RECURSIVE insertionSort(_, _)
insertionSort(r, i) ==
    IF i > Len(r) THEN r ELSE insertionSort(insertDown(r, i), i + 1)

Sort(r) == insertionSort(r, 2)

GetReview(cfg, doc) ==
    LET c == Collect(cfg, doc, <<>>)
    IN  IF c.panic THEN c ELSE [panic |-> FALSE, reviews |-> Sort(c.reviews)]

(***************************************************************************)
(* Arguments tried for parseRate and GetReview                             *)
(***************************************************************************)
RECURSIVE SeqsUpTo(_, _)
SeqsUpTo(S, n) ==
    IF n = 0 THEN {<<>>}
    ELSE LET shorter == SeqsUpTo(S, n - 1)
         IN  shorter \cup {Append(q, x) : q \in shorter, x \in S}

Locales == {"zh-tw", "en", "fr"}

DigitChars == {Digits[d] : d \in 1..10}

StylePrefixes == {<<>>, <<"h", "e", "i", "g", "h", "t", ":", " ", "2", "0", "%", ";", " ">>}
StyleSuffixes == {<<>>, <<";">>}

\* Style strings with one width declaration, and some with none.
StyleInputs ==
    {[hasWidth |-> TRUE, digits |-> d, message |-> pre \o Width(d) \o post] :
        d \in SeqsUpTo(DigitChars, MaxDigits) \ {<<>>},
        pre \in StylePrefixes, post \in StyleSuffixes}
    \cup
    {[hasWidth |-> FALSE, digits |-> <<>>, message |-> m] :
        m \in {<<>>,
               <<"2", "0", "%">>,
               <<"h", "e", "i", "g", "h", "t", ":", " ", "4", "0", "%">>,
               <<"w", "i", "d", "t", "h", ":", " ">>,
               <<"c", "o", "l", "o", "r", ":", " ", "r", "e", "d">>}}

DateJune3 == <<"J", "u", "n", "e", " ", "3", ",", " ", "2", "0", "1", "5">>
DateJune2 == <<"J", "u", "n", "e", " ", "2", ",", " ", "2", "0", "1", "5">>
DateMay30 == <<"M", "a", "y", " ", "3", "0", ",", " ", "2", "0", "1", "5">>
DateJune31 == <<"J", "u", "n", "e", " ", "3", "1", ",", " ", "2", "0", "1", "5">>
DateZhJune3 == <<"2", "0", "1", "5", "U5E74", "6", "U6708", "3", "U65E5">>
DateZhJune2 == <<"2", "0", "1", "5", "U5E74", "6", "U6708", "2", "U65E5">>
DateZhMonth13 == <<"2", "0", "1", "5", "U5E74", "1", "3", "U6708", "2", "U65E5">>
DateEmpty == <<>>

DateTexts == {DateJune3, DateJune2, DateMay30, DateJune31,
              DateZhJune3, DateZhJune2, DateZhMonth13, DateEmpty}

Style80 == Width(<<"8", "0">>)

DateBlock(d) ==
    [author |-> "ann", date |-> d, permalink |-> "/r/1", title |-> "t",
     body |-> <<"o", "k", " ", "m", "o", "r", "e">>,
     link |-> <<"m", "o", "r", "e">>, style |-> Style80]

BodyBlock(body, link) ==
    [author |-> "bob", date |-> DateJune3, permalink |-> "/r/2", title |-> "",
     body |-> body, link |-> link, style |-> <<>>]

BodyChars == {"a", "b"}

\* Documents whose blocks differ in the date text (any order, up to
\* MaxParseBlocks blocks), and one-block documents that differ in body and
\* link text.
ParseDocs ==
    {[k \in 1..Len(q) |-> DateBlock(q[k])] : q \in SeqsUpTo(DateTexts, MaxParseBlocks)}
    \cup
    {<<BodyBlock(b, l)>> : b \in SeqsUpTo(BodyChars, MaxBodyLen),
                           l \in SeqsUpTo(BodyChars, MaxLinkLen)}

Pending == [done |-> FALSE, value |-> <<>>]

(***************************************************************************)
(* The pipeline: main = NewConfig, GetReview, SaveReviews, PostReview.     *)
(* Run r is one execution of main; every run works on the same table.      *)
(***************************************************************************)
Runs == 1..MaxRuns

Finished == {"done", "failed", "crashed"}

\* The review blocks the storefront can show: two reviews of the same day,
\* a newer one, a block without date text, and a block without body.
Block(n, permalink, d) ==
    [author |-> n, date |-> d, permalink |-> permalink, title |-> "t",
     body |-> <<"o", "k", " ", "m", "o", "r", "e">>,
     link |-> <<"m", "o", "r", "e">>, style |-> Style80]

Storefront == <<Block("ann", "/r/1", DateJune3),
                Block("bob", "/r/2", DateJune2),
                Block("cat", "/r/3", DateJune2),
                Block("dan", "/r/4", DateEmpty),
                [Block("eve", "/r/5", DateJune3) EXCEPT !.body = <<>>, !.link = <<>>]>>

\* A fetched page: some of the storefront's blocks, in any markup order.
PagesOf(n) ==
    {[k \in 1..Len(q) |-> Storefront[q[k]]] :
        q \in {p \in SeqsUpTo(1..Len(Storefront), Min(n, Len(Storefront))) :
                  \A a, b \in 1..Len(p) : a # b => p[a] # p[b]}}

Pages == PagesOf(MaxBlocks)

PagesOverlap == PagesOf(MaxOverlapBlocks)

ReviewCounts == 1..Min(MaxReviewCount, MAX_REVIEW_NUM)

\* What GetReview returns for each location and fetched page.
Fetched ==
    [l \in Locales |-> [doc \in Pages \cup PagesOverlap |-> GetReview([Location |-> l], doc)]]

\* SELECT id FROM review WHERE comment_uri = $1, scanned into id: the id of
\* the first such row, 0 (id stays unset) when there is none
QueryRowIdBlind(st, permalink) == 0

QueryRowId(st, permalink) ==
    LET hits == {k \in 1..Len(st) : st[k].comment_uri = permalink}
    IN  IF hits = {} THEN 0 ELSE CHOOSE k \in hits : \A h \in hits : k <= h

InsertRowIfAbsent(st, review) ==
    IF QueryRowId(st, review.Permalink) # 0 THEN st
    ELSE Append(st, [author |-> review.Author, comment_uri |-> review.Permalink,
                     updated_at |-> review.UpdatedAt])

InsertRowLost(st, review) == st

\* INSERT INTO review (author, comment_uri, updated_at) VALUES ($1, $2, $3)
InsertRow(st, review) ==
    Append(st, [author |-> review.Author, comment_uri |-> review.Permalink,
                updated_at |-> review.UpdatedAt])

NoConfig == [ReviewCount |-> 1, Location |-> ""]

\* Where SaveReviews goes when the lookup or the insert of a candidate
\* returned an error: it returns the error, and main logs it and returns
\* (the locals of main are gone).
OnStoreErrorSkip(r, what) ==
    /\ err' = [err EXCEPT ![r] = what]
    /\ idx' = [idx EXCEPT ![r] = @ + 1]
    /\ pc' = [pc EXCEPT ![r] = IF idx[r] + 1 > Len(reviews[r]) THEN "post" ELSE "save"]
    /\ UNCHANGED <<reviews, config>>

OnStoreError(r, what) ==
    /\ pc' = [pc EXCEPT ![r] = "failed"]
    /\ err' = [err EXCEPT ![r] = what]
    /\ idx' = [idx EXCEPT ![r] = 1]
    /\ reviews' = [reviews EXCEPT ![r] = <<>>]
    /\ config' = [config EXCEPT ![r] = NoConfig]

\* The next candidate of the range loop, or the return of SaveReviews.
NextCandidate(r) ==
    /\ idx' = [idx EXCEPT ![r] = @ + 1]
    /\ pc' = [pc EXCEPT ![r] = IF idx[r] + 1 > Len(reviews[r]) THEN "post" ELSE "save"]
    /\ UNCHANGED <<reviews, config, err>>

BASE_URI == "https://play.google.com"

AttachmentOf(review) ==
    [Title |-> review.Author,
     TitleLink |-> <<BASE_URI, review.Permalink>>,
     Text |-> review.Message,
     Fallback |-> <<review.Message, " ", review.Author>>,
     Color |-> review.Color,
     Fields |-> <<[Title |-> "Rating", Value |-> review.Rate, Short |-> TRUE],
                  [Title |-> "UpdatedAt", Value |-> Format(review.UpdatedAt),
                   Short |-> TRUE]>>]

AttachmentsOffByOne(cfg, rs) ==
    [k \in 1..Min(Len(rs), cfg.ReviewCount + 1) |-> AttachmentOf(rs[k])]

AttachmentsAll(cfg, rs) == [k \in 1..Len(rs) |-> AttachmentOf(rs[k])]

\* The range loop of PostReview: one attachment per review, until
\* i >= config.ReviewCount.
Attachments(cfg, rs) ==
    [k \in 1..Min(Len(rs), cfg.ReviewCount) |-> AttachmentOf(rs[k])]

InitPipeline ==
    /\ store = <<>>
    /\ pc = [r \in Runs |-> "ready"]
    /\ config = [r \in Runs |-> NoConfig]
    /\ reviews = [r \in Runs |-> <<>>]
    /\ idx = [r \in Runs |-> 1]
    /\ postReviews = [r \in Runs |-> <<>>]
    /\ payload = [r \in Runs |-> <<>>]
    /\ delivery = [r \in Runs |-> "none"]
    /\ err = [r \in Runs |-> ""]

Init ==
    /\ arg = <<>>
    /\ res = Pending
    /\ InitPipeline

\* main, NewConfig: a Config with a review_count in 1..40 and any location,
\* or an error.  Runs are started in order.
NewConfig(r) ==
    /\ pc[r] = "ready"
    /\ \A q \in Runs : q < r => pc[q] # "ready"
    /\ \/ /\ pc' = [pc EXCEPT ![r] = "failed"]
          /\ err' = [err EXCEPT ![r] = "config"]
          /\ UNCHANGED config
       \/ /\ \E n \in ReviewCounts, l \in Locales :
                config' = [config EXCEPT ![r] = [ReviewCount |-> n, Location |-> l]]
          /\ pc' = [pc EXCEPT ![r] = "fetch"]
          /\ UNCHANGED err
    /\ UNCHANGED <<arg, res, store, reviews, idx, postReviews, payload, delivery>>

\* One run at a time: a run starts when no other run is under way.
NewConfigAlone(r) ==
    /\ \A q \in Runs : pc[q] \in Finished \cup {"ready"}
    /\ NewConfig(r)

\* Overlapping runs: a run may start while its predecessor is under way.
NewConfigOverlap(r) ==
    /\ \A q \in Runs : q < r - 1 => pc[q] \in Finished
    /\ NewConfig(r)

\* main, GetReview: the fetch fails, or the page is parsed and sorted;
\* a panic in the callback ends the process.
GetReviewStep(r, pages) ==
    /\ pc[r] = "fetch"
    /\ \/ /\ pc' = [pc EXCEPT ![r] = "failed"]
          /\ err' = [err EXCEPT ![r] = "fetch"]
          /\ config' = [config EXCEPT ![r] = NoConfig]
          /\ UNCHANGED reviews
       \/ \E doc \in pages :
            LET g == Fetched[config[r].Location][doc]
            IN  IF g.panic
                THEN /\ pc' = [pc EXCEPT ![r] = "crashed"]
                     /\ config' = [config EXCEPT ![r] = NoConfig]
                     /\ UNCHANGED <<reviews, err>>
                ELSE /\ reviews' = [reviews EXCEPT ![r] = g.reviews]
                     /\ pc' = [pc EXCEPT ![r] = IF g.reviews = <<>> THEN "post" ELSE "save"]
                     /\ UNCHANGED <<config, err>>
    /\ UNCHANGED <<arg, res, store, idx, postReviews, payload, delivery>>

Fetch(r) == GetReviewStep(r, Pages)

FetchOverlap(r) == GetReviewStep(r, PagesOverlap)

\* SaveReviews, the QueryRow and Scan of one candidate.
Lookup(r) ==
    /\ pc[r] = "save"
    /\ \/ OnStoreError(r, "lookup")
       \/ /\ QueryRowId(store, reviews[r][idx[r]].Permalink) = 0
          /\ pc' = [pc EXCEPT ![r] = "insert"]
          /\ UNCHANGED <<idx, err, reviews, config>>
       \/ /\ QueryRowId(store, reviews[r][idx[r]].Permalink) # 0
          /\ NextCandidate(r)
    /\ UNCHANGED <<arg, res, store, postReviews, payload, delivery>>

\* SaveReviews, the Exec of the INSERT of a candidate whose id is 0.
Insert(r) ==
    /\ pc[r] = "insert"
    /\ \/ /\ OnStoreError(r, "insert")
          /\ UNCHANGED <<store, postReviews>>
       \/ /\ store' = InsertRow(store, reviews[r][idx[r]])
          /\ postReviews' = [postReviews EXCEPT ![r] = Append(@, reviews[r][idx[r]])]
          /\ NextCandidate(r)
    /\ UNCHANGED <<arg, res, payload, delivery>>

\* PostReview: nothing to do without reviews; otherwise the payload is built
\* and posted, and only an error of client.Do is an error of the run.  The
\* error of http.NewRequest is dropped: for a web_hook_uri that does not
\* parse req is nil and req.Header.Set panics before anything is sent.  Then
\* main returns.
PostReview(r) ==
    /\ pc[r] = "post"
    /\ \/ /\ Len(postReviews[r]) < 1
          /\ pc' = [pc EXCEPT ![r] = "done"]
          /\ UNCHANGED <<payload, delivery, err>>
       \/ /\ Len(postReviews[r]) >= 1
          /\ \/ /\ payload' = [payload EXCEPT ![r] = Attachments(config[r], postReviews[r])]
                /\ delivery' = [delivery EXCEPT ![r] = "sent"]
                /\ pc' = [pc EXCEPT ![r] = "done"]
                /\ UNCHANGED err
             \/ /\ payload' = [payload EXCEPT ![r] = Attachments(config[r], postReviews[r])]
                /\ delivery' = [delivery EXCEPT ![r] = "error"]
                /\ pc' = [pc EXCEPT ![r] = "failed"]
                /\ err' = [err EXCEPT ![r] = "post"]
             \/ /\ pc' = [pc EXCEPT ![r] = "crashed"]
                /\ UNCHANGED <<payload, delivery, err>>
    /\ config' = [config EXCEPT ![r] = NoConfig]
    /\ reviews' = [reviews EXCEPT ![r] = <<>>]
    /\ idx' = [idx EXCEPT ![r] = 1]
    /\ UNCHANGED <<arg, res, store, postReviews>>

Next ==
    \E r \in Runs :
        \/ NewConfigAlone(r)
        \/ Fetch(r)
        \/ Lookup(r)
        \/ Insert(r)
        \/ PostReview(r)

Spec == Init /\ [][Next]_vars

\* Runs that overlap: a run may start while others are under way.
NextConcurrent ==
    \E r \in Runs :
        \/ NewConfigOverlap(r)
        \/ FetchOverlap(r)
        \/ Lookup(r)
        \/ Insert(r)
        \/ PostReview(r)

SpecConcurrent == Init /\ [][NextConcurrent]_vars

(***************************************************************************)
(* parseRate and GetReview on their own: the input is drawn in the initial *)
(* state and one step applies the function.                                *)
(***************************************************************************)
InitRate ==
    /\ arg \in StyleInputs
    /\ res = Pending
    /\ InitPipeline

RateStep ==
    /\ ~res.done
    /\ res' = [done |-> TRUE, value |-> parseRate(arg.message)]
    /\ UNCHANGED <<arg, store, pc, config, reviews, idx, postReviews,
                   payload, delivery, err>>

SpecRate == InitRate /\ [][RateStep]_vars

InitParse ==
    /\ arg \in [Location : Locales, doc : ParseDocs]
    /\ res = Pending
    /\ InitPipeline

ParseStep ==
    /\ ~res.done
    /\ res' = [done |-> TRUE, value |-> GetReview([Location |-> arg.Location], arg.doc)]
    /\ UNCHANGED <<arg, store, pc, config, reviews, idx, postReviews,
                   payload, delivery, err>>

SpecParse == InitParse /\ [][ParseStep]_vars

(***************************************************************************)
(* Vocabulary of the properties                                            *)
(***************************************************************************)
Perms(rs) == {rs[k].Permalink : k \in 1..Len(rs)}

StorePerms == {store[k].comment_uri : k \in 1..Len(store)}

RowsOf(rs) ==
    [k \in 1..Len(rs) |-> [author |-> rs[k].Author, comment_uri |-> rs[k].Permalink,
                           updated_at |-> rs[k].UpdatedAt]]

\* The rows the passes before pass r returned as new, in the order of the passes.
RECURSIVE RowsBefore(_)
RowsBefore(r) ==
    IF r <= 1 THEN <<>> ELSE RowsBefore(r - 1) \o RowsOf(postReviews[r - 1])

\* The candidates with no record in st (and not earlier in rs), in the order of rs.
RECURSIVE NewIn(_, _, _)
NewIn(rs, st, seen) ==
    IF rs = <<>> THEN <<>>
    ELSE IF rs[1].Permalink \in seen \cup {st[k].comment_uri : k \in 1..Len(st)}
         THEN NewIn(Tail(rs), st, seen)
         ELSE <<rs[1]>> \o NewIn(Tail(rs), st, seen \cup {rs[1].Permalink})

\* SaveReviews of run r returned without error.
Saved(r) == pc[r] \in {"post", "done"} \/ err[r] = "post"

PayloadPerms(r) == {payload[r][k].TitleLink[2] : k \in 1..Len(payload[r])}

Count(S) == Cardinality(S)

(***************************************************************************)
(* Properties                                                              *)
(***************************************************************************)

\* C1: with one run at a time, when SaveReviews has returned, what it
\* returned is, in input order, exactly the candidates whose permalink had no
\* record (the table then holds the earlier passes' rows followed by this
\* pass's, a row per returned review); no permalink is returned by two
\* passes; and a pass whose input is the sequence the previous pass returned
\* in full returns the empty sequence.
C1_FilterNew ==
    \A r \in Runs :
        /\ pc[r] = "post" =>
              /\ postReviews[r] = NewIn(reviews[r], RowsBefore(r), {})
              /\ store = RowsBefore(r) \o RowsOf(postReviews[r])
        /\ \A q \in Runs : q # r => Perms(postReviews[q]) \cap Perms(postReviews[r]) = {}
        /\ (r > 1 /\ pc[r] = "post" /\ Saved(r - 1) /\ reviews[r] = postReviews[r - 1])
              => postReviews[r] = <<>>

C1_Witness ==
    /\ pc[1] = "done"
    /\ RowsBefore(1) = <<>>
    /\ pc[2] = "post"
    /\ Len(reviews[2]) >= 2
    /\ reviews[2] = postReviews[1]
    /\ postReviews[2] = <<>>

\* C2: with one run at a time, a run whose lookup or insert failed has
\* ended with that error and without any delivery; the table holds exactly
\* the rows of the reviews the passes returned, so the failed pass
\* inserted nothing after the failure and its earlier rows are still there;
\* and no later pass returns one of its reviews.
C2_StoreErrorStops ==
    \A r \in Runs :
        err[r] \in {"lookup", "insert"} =>
            /\ pc[r] = "failed"
            /\ delivery[r] = "none"
            /\ payload[r] = <<>>
            /\ \E a, b \in 0..Len(store) :
                  /\ a = Len(RowsBefore(r))
                  /\ b = a + Len(postReviews[r])
                  /\ SubSeq(store, 1, a) = RowsBefore(r)
                  /\ SubSeq(store, a + 1, b) = RowsOf(postReviews[r])
                  /\ \A k \in (b + 1)..Len(store) :
                        \E q \in Runs : q > r /\ store[k].comment_uri \in Perms(postReviews[q])
            /\ \A q \in Runs : q > r => Perms(postReviews[q]) \cap Perms(postReviews[r]) = {}

C2_Witness ==
    /\ err[1] = "insert"
    /\ Len(postReviews[1]) = 1
    /\ pc[2] = "post"
    /\ postReviews[1][1].Permalink \in Perms(reviews[2])
    /\ postReviews[2] # <<>>
    /\ postReviews[1][1].Permalink \notin Perms(postReviews[2])

C3_Step(r) ==
    LET n == Len(postReviews[r])
        p == payload'[r]
    IN  /\ n = 0 => /\ p = <<>>
                    /\ delivery'[r] = "none"
                    /\ pc'[r] = "done"
                    /\ err'[r] = ""
        /\ (n >= 1 /\ pc'[r] = "crashed") => (p = <<>> /\ delivery'[r] = "none")
        /\ (n >= 1 /\ pc'[r] # "crashed") =>
              /\ delivery'[r] # "none"
              /\ Len(p) = Min(config[r].ReviewCount, n)
              /\ \A k \in 1..Len(p) :
                    /\ p[k].Title = postReviews[r][k].Author
                    /\ p[k].TitleLink = <<BASE_URI, postReviews[r][k].Permalink>>
                    /\ p[k].Text = postReviews[r][k].Message
              /\ \A k \in 1..Len(p), j \in (Len(p) + 1)..n :
                    UnixDay(postReviews[r][k].UpdatedAt) >= UnixDay(postReviews[r][j].UpdatedAt)

\* C3: the step of PostReview, for n reviews: for n = 0 nothing is built or
\* posted and the run ends without error; for n >= 1 (and a request that
\* could be made) a POST is attempted whose payload holds
\* min(ReviewCount, n) attachments, the k-th made from the k-th review, none
\* of them older than a review left out.
C3_PayloadCap ==
    [][\A r \in Runs : (pc[r] = "post" /\ pc'[r] # "post") => C3_Step(r)]_vars

C3_Witness ==
    \E r \in Runs :
        /\ delivery[r] = "sent"
        /\ Len(postReviews[r]) = 3
        /\ Len(payload[r]) = 2
        /\ payload[r][1].TitleLink[2] = "/r/1"

\* C4: with one run at a time, a POST is attempted only when every review
\* the pass returned has its row in the table; after a failed POST the run
\* has ended with that error, the rows are still there and no later pass
\* returns the reviews.
C4_PostAfterSave ==
    \A r \in Runs :
        /\ (pc[r] = "post" \/ delivery[r] # "none") => Perms(postReviews[r]) \subseteq StorePerms
        /\ delivery[r] # "none" => payload[r] # <<>>
        /\ delivery[r] = "error" =>
              /\ pc[r] = "failed" /\ err[r] = "post"
              /\ \A q \in Runs : q > r => Perms(postReviews[q]) \cap Perms(postReviews[r]) = {}

C4_Witness ==
    /\ delivery[1] = "error"
    /\ pc[2] = "post"
    /\ Perms(postReviews[1]) \subseteq Perms(reviews[2])
    /\ postReviews[2] = <<>>

C5_Recognized == arg.Location \in {"zh-tw", "en"}

C5_Parses(s) == C5_Recognized /\ Parse(timeForm(arg.Location), s.date).ok

\* C5: every review GetReview emits has an updatedAt that the date text of
\* a block parses to under the grammar of the configured locale, as many
\* reviews are emitted as blocks parse, and none when the locale is neither
\* zh-tw nor en.
C5_OnlyParsedDates ==
    (res.done /\ ~res.value.panic) =>
        /\ Len(res.value.reviews) = Count({k \in 1..Len(arg.doc) : C5_Parses(arg.doc[k])})
        /\ \A k \in 1..Len(res.value.reviews) :
              \E j \in 1..Len(arg.doc) :
                  /\ C5_Parses(arg.doc[j])
                  /\ res.value.reviews[k].UpdatedAt = Parse(timeForm(arg.Location), arg.doc[j].date).t

C6_Collected == Collect([Location |-> arg.Location], arg.doc, <<>>).reviews

\* C6: what GetReview returns is the collected reviews reordered so that
\* updatedAt never increases, and strictly decreases when the dates differ
\* pairwise.
C6_SortedDescending ==
    (res.done /\ ~res.value.panic) =>
        LET out == res.value.reviews
            in == C6_Collected
        IN  /\ Len(out) = Len(in)
            /\ \A x \in {in[k] : k \in 1..Len(in)} :
                  Count({k \in 1..Len(in) : in[k] = x}) = Count({k \in 1..Len(out) : out[k] = x})
            /\ \A i, j \in 1..Len(out) :
                  i < j => UnixDay(out[i].UpdatedAt) >= UnixDay(out[j].UpdatedAt)
            /\ (\A i, j \in 1..Len(in) : i # j => in[i].UpdatedAt # in[j].UpdatedAt)
                  => \A i, j \in 1..Len(out) :
                        i < j => UnixDay(out[i].UpdatedAt) > UnixDay(out[j].UpdatedAt)

C6_Witness ==
    /\ res.done
    /\ arg.Location = "en"
    /\ Len(arg.doc) = 3
    /\ arg.doc[1].date = DateMay30 /\ arg.doc[2].date = DateJune2 /\ arg.doc[3].date = DateJune3
    /\ Len(res.value.reviews) = 3
    /\ res.value.reviews[1].UpdatedAt = [year |-> 2015, month |-> 6, day |-> 3]
    /\ res.value.reviews[3].UpdatedAt = [year |-> 2015, month |-> 5, day |-> 30]

C7_Expected(body, link) ==
    IF link = <<>> THEN {<<>>, body}
    ELSE IF Index(body, link) >= 0 THEN {SubSeq(body, 1, Index(body, link))}
    ELSE {body}

\* C7: for a document of one block, whatever its body and link text, the
\* parse does not abort, and the message of the review is the body up to the
\* first occurrence of the link text, or the whole body when the link text
\* does not occur in it (for an empty link text either reading is accepted).
C7_MessageCut ==
    (res.done /\ Len(arg.doc) = 1) =>
        /\ ~res.value.panic
        /\ \A k \in 1..Len(res.value.reviews) :
              res.value.reviews[k].Message \in C7_Expected(arg.doc[1].body, arg.doc[1].link)

C8_Star == <<":", "s", "t", "a", "r", ":">>
C8_Star2 == <<":", "s", "t", "a", "r", "2", ":">>

C8_Expected(in) ==
    IF ~in.hasWidth THEN <<>>
    ELSE IF in.digits = <<"2", "0">> THEN C8_Star
    ELSE IF in.digits = <<"4", "0">> THEN C8_Star \o C8_Star
    ELSE IF in.digits = <<"6", "0">> THEN C8_Star \o C8_Star \o C8_Star
    ELSE IF in.digits = <<"8", "0">> THEN C8_Star \o C8_Star \o C8_Star \o C8_Star
    ELSE IF in.digits = <<"1", "0", "0">>
         THEN C8_Star2 \o C8_Star2 \o C8_Star2 \o C8_Star2 \o C8_Star2
    ELSE <<>>

\* C8: a style string whose width declaration is 20%, 40%, 60%, 80% or 100%
\* decodes to one, two, three, four ":star:" or five ":star2:"; every other
\* percentage, and a string without a width declaration, decodes to the
\* empty rating.
C8_RateTable == res.done => res.value = C8_Expected(arg)

C8_Witness ==
    /\ res.done
    /\ arg.hasWidth /\ arg.digits = <<"1", "0", "0">>
    /\ Len(res.value) = 35

C9_Dropped(r) ==
    {postReviews[r][k].Permalink : k \in (Len(payload[r]) + 1)..Len(postReviews[r])}

C9_Inv ==
    \A r \in Runs :
        delivery[r] # "none" =>
            /\ C9_Dropped(r) \subseteq StorePerms
            /\ \A q \in Runs : C9_Dropped(r) \cap PayloadPerms(q) = {}

C9_Step(r) ==
    (Len(postReviews[r]) > config[r].ReviewCount /\ pc'[r] # "crashed") =>
        /\ Len(payload'[r]) = config[r].ReviewCount
        /\ \A k \in 1..Len(payload'[r]) :
              payload'[r][k].TitleLink = <<BASE_URI, postReviews[r][k].Permalink>>

\* C9: with one run at a time, a POST of a pass that returned more reviews
\* than ReviewCount carries only the first ReviewCount of them; the reviews
\* beyond the cap have their rows in the table and are in no payload of any
\* run.
C9_BeyondCapNeverPosted ==
    /\ []C9_Inv
    /\ [][\A r \in Runs : (pc[r] = "post" /\ pc'[r] # "post") => C9_Step(r)]_vars

C9_Witness ==
    /\ pc[1] = "done" /\ delivery[1] = "sent"
    /\ Len(postReviews[1]) = 2 /\ Len(payload[1]) = 1
    /\ pc[2] = "done" /\ delivery[2] = "sent"
    /\ C9_Dropped(1) # {}
    /\ "/r/1" \in PayloadPerms(2)

\* C10: with overlapping runs, the table holds for every permalink one row
\* per pass that returned it as new: an insert follows the pass's own lookup
\* whatever the table holds by then, so two passes that both found the
\* permalink absent both insert it and both return it.
C10_RowPerReturn ==
    \A u \in {Storefront[k].permalink : k \in 1..Len(Storefront)} :
        LET returned == {<<r, k>> \in Runs \X (1..Len(Storefront)) :
                            k <= Len(postReviews[r]) /\ postReviews[r][k].Permalink = u}
        IN  Count({k \in 1..Len(store) : store[k].comment_uri = u}) = Count(returned)

C10_Witness ==
    \E u \in {Storefront[k].permalink : k \in 1..Len(Storefront)} :
        /\ Count({k \in 1..Len(store) : store[k].comment_uri = u}) = 2
        /\ delivery[1] = "sent" /\ delivery[2] = "sent"
        /\ u \in PayloadPerms(1) \cap PayloadPerms(2)

====
